---- MODULE Spec2Model ----
(***************************************************************************)
(* TaskFlow backend: boards -> ordered lists -> ordered cards, with        *)
(* owner/member access control.  Every request handler is an async         *)
(* function; it is cut into one atomic step per awaited store call, the    *)
(* synchronous code after an await belonging to the same step.             *)
(***************************************************************************)
EXTENDS Integers, Sequences, FiniteSets, TLC

\* ----------------------------------------------------------------- bounds
MaxBoardId == 3     \* board ids are 1..MaxBoardId (1, 2 exist initially)
MaxListId == 5      \* list ids are 1..MaxListId (1, 2, 3 exist initially)
MaxCardId == 3      \* card ids are 1..MaxCardId (1 exists initially)
MaxItems == 2       \* longest reorder payload
MaxOrder == 2       \* the non-zero order value clients send

\* ------------------------------------------------------------ input sets
Users == {"u1", "u2"}
NoUser == "none"                      \* req.user is undefined
Callers == Users \cup {NoUser}
Procs == {"p1", "p2"}                 \* two requests in flight

BoardIds == 1..MaxBoardId
ListIds == 1..MaxListId
CardIds == 1..MaxCardId

\* A title is a sequence of characters; Undefined is a body without the field.
Undefined == <<"undefined">>
TitleInputs == {Undefined, <<" ">>, <<" ", "b">>}

\* A body's order field: <<n>> is the number n, <<>> is a missing or
\* non-numeric value (typeof order !== 'number').
OrderInputs == {<<>>, <<0>>, <<MaxOrder>>}

\* Reorder payloads: up to MaxItems entries {id, order} naming lists in
\* ascending id, each with the numeric order MaxOrder (so that a payload can
\* make orders sparse and make them collide), the empty array, and two
\* arrays with a malformed entry (order not a number, id missing).
IdSeqs ==
  {s \in UNION {[1..n -> ListIds] : n \in 0..MaxItems} :
     \A i \in 1..(Len(s) - 1) : s[i] < s[i + 1]}
Payloads ==
  {[i \in 1..Len(s) |-> [id |-> s[i], order |-> <<MaxOrder>>]] : s \in IdSeqs}
    \cup {<<[id |-> 1, order |-> <<>>]>>, <<[id |-> 0, order |-> <<MaxOrder>>]>>}

VARIABLES boards, members, lists, cards, comments,
          nextBoard, nextList, nextCard,
          freedLists, freedCards, req

store == <<boards, members, lists, cards, comments>>
ids == <<nextBoard, nextList, nextCard>>
freed == <<freedLists, freedCards>>
vars == <<boards, members, lists, cards, comments,
          nextBoard, nextList, nextCard, freedLists, freedCards, req>>

\* ------------------------------------------------------- pure functions
RECURSIVE TrimLeft(_)
TrimLeft(s) == IF s # <<>> /\ Head(s) = " " THEN TrimLeft(Tail(s)) ELSE s

RECURSIVE TrimRight(_)
TrimRight(s) ==
  IF s # <<>> /\ s[Len(s)] = " " THEN TrimRight(SubSeq(s, 1, Len(s) - 1)) ELSE s

trim(s) == TrimRight(TrimLeft(s))

\* !title || title.trim() === ''
titleMissing(t) == t = Undefined \/ t = <<>> \/ trim(t) = <<>>

isNumber(o) == Len(o) = 1

Restrict(f, S) == [x \in S |-> f[x]]

SetMax(S) == CHOOSE m \in S : \A x \in S : x <= m

\* findFirst({orderBy: {order: 'desc'}}) then  max ? max.order + 1 : 0,
\* over the sibling rows (each [id, order]) of the scope.
nextOrderByCount(rows) == Cardinality(rows)
nextOrderNoIncrement(rows) ==
  IF rows = {} THEN 0 ELSE SetMax({r.order : r \in rows})
nextOrder(rows) ==
  IF rows = {} THEN 0 ELSE SetMax({r.order : r \in rows}) + 1

\* board.ownerId === userId || board.members.some(m => m.userId === userId)
ownerOnlyAccess(b, u) == boards[b].ownerId = u
hasAccess(b, u) ==
  \/ boards[b].ownerId = u
  \/ \E m \in members : m.boardId = b /\ m.userId = u

\* updateBoard / deleteBoard: board.ownerId !== userId is rejected
anyMemberIsOwner(b, u) == hasAccess(b, u)
isOwner(b, u) == boards[b].ownerId = u

\* moveCard's second check, on targetList.board
targetCheckSkipped(b, u) == TRUE
hasTargetAccess(b, u) == hasAccess(b, u)

listsOf(b) == {l \in DOMAIN lists : lists[l].boardId = b}
cardsOf(L) == {c \in DOMAIN cards : cards[c].listId \in L}
commentsOf(C) == {k \in DOMAIN comments : comments[k].cardId \in C}

\* What the store removes with a board / a list ("cascade will delete ...").
noBoardCascade(b) ==
  [lists |-> {}, cards |-> {}, comments |-> {}, members |-> {}]
boardCascade(b) ==
  [lists |-> listsOf(b),
   cards |-> cardsOf(listsOf(b)),
   comments |-> commentsOf(cardsOf(listsOf(b))),
   members |-> {m \in members : m.boardId = b}]

listCascade(l) ==
  [cards |-> cardsOf({l}), comments |-> commentsOf(cardsOf({l}))]

cardCascade(c) == [comments |-> commentsOf({c})]

\* prisma.$transaction([list.update, ...]): the updates run in order; an update
\* of a missing row throws and the whole batch is rolled back.
RECURSIVE applyUpdates(_, _)
applyUpdates(ls, items) ==
  IF items = <<>> THEN [ok |-> TRUE, lists |-> ls]
  ELSE IF Head(items).id \notin DOMAIN ls THEN [ok |-> FALSE, lists |-> ls]
  ELSE applyUpdates([ls EXCEPT ![Head(items).id].order = Head(items).order[1]],
                    Tail(items))

transactionNoRollback(ls, items) == applyUpdates(ls, items)
transaction(ls, items) ==
  IF applyUpdates(ls, items).ok THEN applyUpdates(ls, items)
  ELSE [ok |-> FALSE, lists |-> ls]

\* prisma.card.update({where: {id}, data: {listId, order}})
moveUpdateListOnly(card, listId, order) == [card EXCEPT !.listId = listId]
moveUpdateAtEnd(card, listId, order) ==
  [card EXCEPT !.listId = listId,
               !.order = nextOrder({[id |-> c, order |-> cards[c].order] :
                                      c \in cardsOf({listId})})]
moveUpdate(card, listId, order) ==
  [card EXCEPT !.listId = listId, !.order = order]

\* ------------------------------------------------------------- requests
\* An HTTP request not yet dispatched: method, path segments and the body's
\* title and lists fields.  NoHttp once a handler has been entered.
NoHttp == [method |-> "", path |-> <<>>, title |-> Undefined, lists |-> <<>>]

Blank ==
  [op |-> "none", pc |-> "idle", user |-> NoUser, bid |-> 0, lid |-> 0,
   cid |-> 0, title |-> Undefined, order |-> <<>>, items |-> <<>>,
   status |-> 0, ord |-> 0, srcBoard |-> 0, tgtBoard |-> 0, http |-> NoHttp]

\* The request enters the handler: code 0 lets it reach its first store call.
\* A request without a user is answered 401 before its parameters are used,
\* so they are not kept.
Begin(p, r, code, next) ==
  req' = [req EXCEPT ![p] =
            IF code = 0 THEN [r EXCEPT !.pc = next]
            ELSE IF code = 401
              THEN [Blank EXCEPT !.op = r.op, !.pc = "done", !.status = 401]
            ELSE [r EXCEPT !.pc = "done", !.status = code]]

Respond(p, code) == req' = [req EXCEPT ![p].pc = "done", ![p].status = code]
Goto(p, next) == req' = [req EXCEPT ![p].pc = next]

CanStart(p) ==
  /\ req[p].pc = "idle"
  /\ p = "p2" => req["p1"].pc # "idle"

At(p, op, pc) == req[p].op = op /\ req[p].pc = pc

\* ----------------------------------------------------------------- Init
Init ==
  /\ boards = (1 :> [ownerId |-> "u1", title |-> <<"a">>])
                @@ (2 :> [ownerId |-> "u2", title |-> <<"a">>])
  /\ members = {[boardId |-> 1, userId |-> "u1", role |-> "owner"],
                [boardId |-> 1, userId |-> "u2", role |-> "member"],
                [boardId |-> 2, userId |-> "u2", role |-> "owner"]}
  /\ lists = (1 :> [boardId |-> 1, order |-> 0, title |-> <<"a">>])
               @@ (2 :> [boardId |-> 1, order |-> 1, title |-> <<"a">>])
               @@ (3 :> [boardId |-> 2, order |-> 0, title |-> <<"a">>])
  /\ cards = (1 :> [listId |-> 1, order |-> 0, title |-> <<"a">>])
  /\ comments = (1 :> [cardId |-> 1])
  /\ nextBoard = 3
  /\ nextList = 4
  /\ nextCard = 2
  /\ freedLists = {}
  /\ freedCards = {}
  /\ req = [p \in Procs |-> Blank]

\* ------------------------------------------------------ board.controller
GetAllBoardsStart(p) ==
  /\ CanStart(p)
  /\ \E u \in Callers :
       Begin(p, [Blank EXCEPT !.op = "getAllBoards", !.user = u],
             IF u = NoUser THEN 401 ELSE 0, "load")
  /\ UNCHANGED <<store, ids, freed>>

GetAllBoardsQuery(p) ==
  /\ At(p, "getAllBoards", "load")
  /\ Respond(p, 200)
  /\ UNCHANGED <<store, ids, freed>>

CreateBoardStart(p) ==
  /\ CanStart(p)
  /\ \E u \in Callers, t \in TitleInputs :
       Begin(p, [Blank EXCEPT !.op = "createBoard", !.user = u, !.title = t],
             IF u = NoUser THEN 401 ELSE IF titleMissing(t) THEN 400 ELSE 0,
             "write")
  /\ UNCHANGED <<store, ids, freed>>

CreateBoardWrite(p) ==
  /\ At(p, "createBoard", "write")
  /\ nextBoard <= MaxBoardId
  /\ boards' = boards @@ (nextBoard :> [ownerId |-> req[p].user,
                                        title |-> trim(req[p].title)])
  /\ members' = members \cup {[boardId |-> nextBoard, userId |-> req[p].user,
                               role |-> "owner"]}
  /\ nextBoard' = nextBoard + 1
  /\ req' = [req EXCEPT ![p].pc = "done", ![p].status = 201,
                        ![p].bid = nextBoard]
  /\ UNCHANGED <<lists, cards, comments, nextList, nextCard, freed>>

GetBoardByIdStart(p) ==
  /\ CanStart(p)
  /\ \E u \in Callers, b \in BoardIds :
       Begin(p, [Blank EXCEPT !.op = "getBoardById", !.user = u, !.bid = b],
             IF u = NoUser THEN 401 ELSE 0, "load")
  /\ UNCHANGED <<store, ids, freed>>

GetBoardByIdLoad(p) ==
  /\ At(p, "getBoardById", "load")
  /\ Respond(p, IF req[p].bid \notin DOMAIN boards THEN 404
                ELSE IF ~hasAccess(req[p].bid, req[p].user) THEN 403
                ELSE 200)
  /\ UNCHANGED <<store, ids, freed>>

UpdateBoardStart(p) ==
  /\ CanStart(p)
  /\ \E u \in Callers, b \in BoardIds, t \in TitleInputs :
       Begin(p, [Blank EXCEPT !.op = "updateBoard", !.user = u, !.bid = b,
                              !.title = t],
             IF u = NoUser THEN 401 ELSE IF titleMissing(t) THEN 400 ELSE 0,
             "load")
  /\ UNCHANGED <<store, ids, freed>>

UpdateBoardLoad(p) ==
  /\ At(p, "updateBoard", "load")
  /\ IF req[p].bid \notin DOMAIN boards THEN Respond(p, 404)
     ELSE IF ~isOwner(req[p].bid, req[p].user) THEN Respond(p, 403)
     ELSE Goto(p, "write")
  /\ UNCHANGED <<store, ids, freed>>

UpdateBoardWrite(p) ==
  /\ At(p, "updateBoard", "write")
  /\ IF req[p].bid \in DOMAIN boards
     THEN /\ boards' = [boards EXCEPT ![req[p].bid].title = trim(req[p].title)]
          /\ Respond(p, 200)
     ELSE /\ boards' = boards
          /\ Respond(p, 500)
  /\ UNCHANGED <<members, lists, cards, comments, ids, freed>>

DeleteBoardStart(p) ==
  /\ CanStart(p)
  /\ \E u \in Callers, b \in BoardIds :
       Begin(p, [Blank EXCEPT !.op = "deleteBoard", !.user = u, !.bid = b],
             IF u = NoUser THEN 401 ELSE 0, "load")
  /\ UNCHANGED <<store, ids, freed>>

DeleteBoardLoad(p) ==
  /\ At(p, "deleteBoard", "load")
  /\ IF req[p].bid \notin DOMAIN boards THEN Respond(p, 404)
     ELSE IF ~isOwner(req[p].bid, req[p].user) THEN Respond(p, 403)
     ELSE Goto(p, "write")
  /\ UNCHANGED <<store, ids, freed>>

DeleteBoardWrite(p) ==
  /\ At(p, "deleteBoard", "write")
  /\ IF req[p].bid \in DOMAIN boards
     THEN LET d == boardCascade(req[p].bid) IN
          /\ boards' = Restrict(boards, DOMAIN boards \ {req[p].bid})
          /\ members' = members \ d.members
          /\ lists' = Restrict(lists, DOMAIN lists \ d.lists)
          /\ cards' = Restrict(cards, DOMAIN cards \ d.cards)
          /\ comments' = Restrict(comments, DOMAIN comments \ d.comments)
          /\ freedLists' = freedLists
               \cup {<<lists[l].boardId, lists[l].order>> : l \in d.lists}
          /\ freedCards' = freedCards
               \cup {<<cards[c].listId, cards[c].order>> : c \in d.cards}
          /\ Respond(p, 200)
     ELSE /\ UNCHANGED <<store, freed>>
          /\ Respond(p, 500)
  /\ UNCHANGED ids

\* Foreign keys of the relational store: a row is written only when the
\* parent it references exists.
fkBoard(b) == b \in DOMAIN boards
fkList(l) == l \in DOMAIN lists

listRows(b) == {[id |-> l, order |-> lists[l].order] : l \in listsOf(b)}
cardRows(l) == {[id |-> c, order |-> cards[c].order] : c \in cardsOf({l})}

\* ------------------------------------------------------- list.controller
CreateListStart(p) ==
  /\ CanStart(p)
  /\ \E u \in Callers, b \in BoardIds, t \in TitleInputs :
       Begin(p, [Blank EXCEPT !.op = "createList", !.user = u, !.bid = b,
                              !.title = t],
             IF u = NoUser THEN 401 ELSE IF titleMissing(t) THEN 400 ELSE 0,
             "load")
  /\ UNCHANGED <<store, ids, freed>>

CreateListLoad(p) ==
  /\ At(p, "createList", "load")
  /\ IF req[p].bid \notin DOMAIN boards THEN Respond(p, 404)
     ELSE IF ~hasAccess(req[p].bid, req[p].user) THEN Respond(p, 403)
     ELSE Goto(p, "max")
  /\ UNCHANGED <<store, ids, freed>>

CreateListMax(p) ==
  /\ At(p, "createList", "max")
  /\ req' = [req EXCEPT ![p].pc = "write",
                        ![p].ord = nextOrder(listRows(req[p].bid))]
  /\ UNCHANGED <<store, ids, freed>>

CreateListWrite(p) ==
  /\ At(p, "createList", "write")
  /\ nextList <= MaxListId
  /\ IF fkBoard(req[p].bid)
     THEN /\ lists' = lists @@ (nextList :> [boardId |-> req[p].bid,
                                             order |-> req[p].ord,
                                             title |-> trim(req[p].title)])
          /\ nextList' = nextList + 1
          /\ req' = [req EXCEPT ![p].pc = "done", ![p].status = 201,
                                ![p].lid = nextList]
     ELSE /\ UNCHANGED <<lists, nextList>>
          /\ Respond(p, 500)
  /\ UNCHANGED <<boards, members, cards, comments, nextBoard, nextCard, freed>>

UpdateListStart(p) ==
  /\ CanStart(p)
  /\ \E u \in Callers, l \in ListIds, t \in TitleInputs :
       Begin(p, [Blank EXCEPT !.op = "updateList", !.user = u, !.lid = l,
                              !.title = t],
             IF u = NoUser THEN 401 ELSE IF titleMissing(t) THEN 400 ELSE 0,
             "load")
  /\ UNCHANGED <<store, ids, freed>>

UpdateListLoad(p) ==
  /\ At(p, "updateList", "load")
  /\ IF req[p].lid \notin DOMAIN lists THEN Respond(p, 404)
     ELSE IF ~hasAccess(lists[req[p].lid].boardId, req[p].user)
       THEN Respond(p, 403)
     ELSE Goto(p, "write")
  /\ UNCHANGED <<store, ids, freed>>

UpdateListWrite(p) ==
  /\ At(p, "updateList", "write")
  /\ IF req[p].lid \in DOMAIN lists
     THEN /\ lists' = [lists EXCEPT ![req[p].lid].title = trim(req[p].title)]
          /\ Respond(p, 200)
     ELSE /\ lists' = lists
          /\ Respond(p, 500)
  /\ UNCHANGED <<boards, members, cards, comments, ids, freed>>

DeleteListStart(p) ==
  /\ CanStart(p)
  /\ \E u \in Callers, l \in ListIds :
       Begin(p, [Blank EXCEPT !.op = "deleteList", !.user = u, !.lid = l],
             IF u = NoUser THEN 401 ELSE 0, "load")
  /\ UNCHANGED <<store, ids, freed>>

DeleteListLoad(p) ==
  /\ At(p, "deleteList", "load")
  /\ IF req[p].lid \notin DOMAIN lists THEN Respond(p, 404)
     ELSE IF ~hasAccess(lists[req[p].lid].boardId, req[p].user)
       THEN Respond(p, 403)
     ELSE Goto(p, "write")
  /\ UNCHANGED <<store, ids, freed>>

DeleteListWrite(p) ==
  /\ At(p, "deleteList", "write")
  /\ IF req[p].lid \in DOMAIN lists
     THEN LET l == req[p].lid
              d == listCascade(l) IN
          /\ lists' = Restrict(lists, DOMAIN lists \ {l})
          /\ cards' = Restrict(cards, DOMAIN cards \ d.cards)
          /\ comments' = Restrict(comments, DOMAIN comments \ d.comments)
          /\ freedLists' = freedLists \cup {<<lists[l].boardId, lists[l].order>>}
          /\ freedCards' = freedCards
               \cup {<<cards[c].listId, cards[c].order>> : c \in d.cards}
          /\ Respond(p, 200)
     ELSE /\ UNCHANGED <<lists, cards, comments, freed>>
          /\ Respond(p, 500)
  /\ UNCHANGED <<boards, members, ids>>

\* lists is a non-empty array whose entries each have an id and a numeric order
payloadInvalid(items) ==
  \/ items = <<>>
  \/ \E i \in 1..Len(items) : items[i].id = 0 \/ ~isNumber(items[i].order)

ReorderListsStart(p) ==
  /\ CanStart(p)
  /\ \E u \in Callers, its \in Payloads :
       Begin(p, [Blank EXCEPT !.op = "reorderLists", !.user = u, !.items = its],
             IF u = NoUser THEN 401 ELSE IF payloadInvalid(its) THEN 400 ELSE 0,
             "load")
  /\ UNCHANGED <<store, ids, freed>>

ReorderListsLoad(p) ==
  /\ At(p, "reorderLists", "load")
  /\ LET first == req[p].items[1].id IN
     IF first \notin DOMAIN lists THEN Respond(p, 404)
     ELSE IF ~hasAccess(lists[first].boardId, req[p].user) THEN Respond(p, 403)
     ELSE req' = [req EXCEPT ![p].pc = "write",
                             ![p].srcBoard = lists[first].boardId]
  /\ UNCHANGED <<store, ids, freed>>

ReorderListsWrite(p) ==
  /\ At(p, "reorderLists", "write")
  /\ LET t == transaction(lists, req[p].items) IN
       /\ lists' = t.lists
       /\ Respond(p, IF t.ok THEN 200 ELSE 500)
  /\ UNCHANGED <<boards, members, cards, comments, ids, freed>>

boardOfCard(c) == lists[cards[c].listId].boardId

\* ------------------------------------------------------- card.controller
CreateCardStart(p) ==
  /\ CanStart(p)
  /\ \E u \in Callers, l \in ListIds, t \in TitleInputs :
       Begin(p, [Blank EXCEPT !.op = "createCard", !.user = u, !.lid = l,
                              !.title = t],
             IF u = NoUser THEN 401 ELSE IF titleMissing(t) THEN 400 ELSE 0,
             "load")
  /\ UNCHANGED <<store, ids, freed>>

CreateCardLoad(p) ==
  /\ At(p, "createCard", "load")
  /\ IF req[p].lid \notin DOMAIN lists THEN Respond(p, 404)
     ELSE IF ~hasAccess(lists[req[p].lid].boardId, req[p].user)
       THEN Respond(p, 403)
     ELSE Goto(p, "max")
  /\ UNCHANGED <<store, ids, freed>>

CreateCardMax(p) ==
  /\ At(p, "createCard", "max")
  /\ req' = [req EXCEPT ![p].pc = "write",
                        ![p].ord = nextOrder(cardRows(req[p].lid))]
  /\ UNCHANGED <<store, ids, freed>>

CreateCardWrite(p) ==
  /\ At(p, "createCard", "write")
  /\ nextCard <= MaxCardId
  /\ IF fkList(req[p].lid)
     THEN /\ cards' = cards @@ (nextCard :> [listId |-> req[p].lid,
                                             order |-> req[p].ord,
                                             title |-> trim(req[p].title)])
          /\ nextCard' = nextCard + 1
          /\ req' = [req EXCEPT ![p].pc = "done", ![p].status = 201,
                                ![p].cid = nextCard]
     ELSE /\ UNCHANGED <<cards, nextCard>>
          /\ Respond(p, 500)
  /\ UNCHANGED <<boards, members, lists, comments, nextBoard, nextList, freed>>

GetCardStart(p) ==
  /\ CanStart(p)
  /\ \E u \in Callers, c \in CardIds :
       Begin(p, [Blank EXCEPT !.op = "getCard", !.user = u, !.cid = c],
             IF u = NoUser THEN 401 ELSE 0, "load")
  /\ UNCHANGED <<store, ids, freed>>

GetCardLoad(p) ==
  /\ At(p, "getCard", "load")
  /\ Respond(p, IF req[p].cid \notin DOMAIN cards THEN 404
                ELSE IF ~hasAccess(boardOfCard(req[p].cid), req[p].user) THEN 403
                ELSE 200)
  /\ UNCHANGED <<store, ids, freed>>

UpdateCardStart(p) ==
  /\ CanStart(p)
  /\ \E u \in Callers, c \in CardIds, t \in TitleInputs :
       Begin(p, [Blank EXCEPT !.op = "updateCard", !.user = u, !.cid = c,
                              !.title = t],
             IF u = NoUser THEN 401 ELSE 0, "load")
  /\ UNCHANGED <<store, ids, freed>>

UpdateCardLoad(p) ==
  /\ At(p, "updateCard", "load")
  /\ IF req[p].cid \notin DOMAIN cards THEN Respond(p, 404)
     ELSE IF ~hasAccess(boardOfCard(req[p].cid), req[p].user)
       THEN Respond(p, 403)
     ELSE IF req[p].title # Undefined /\ trim(req[p].title) = <<>>
       THEN Respond(p, 400)
     ELSE Goto(p, "write")
  /\ UNCHANGED <<store, ids, freed>>

UpdateCardWrite(p) ==
  /\ At(p, "updateCard", "write")
  /\ IF req[p].cid \in DOMAIN cards
     THEN /\ cards' = IF req[p].title # Undefined
                      THEN [cards EXCEPT ![req[p].cid].title = trim(req[p].title)]
                      ELSE cards
          /\ Respond(p, 200)
     ELSE /\ cards' = cards
          /\ Respond(p, 500)
  /\ UNCHANGED <<boards, members, lists, comments, ids, freed>>

DeleteCardStart(p) ==
  /\ CanStart(p)
  /\ \E u \in Callers, c \in CardIds :
       Begin(p, [Blank EXCEPT !.op = "deleteCard", !.user = u, !.cid = c],
             IF u = NoUser THEN 401 ELSE 0, "load")
  /\ UNCHANGED <<store, ids, freed>>

DeleteCardLoad(p) ==
  /\ At(p, "deleteCard", "load")
  /\ IF req[p].cid \notin DOMAIN cards THEN Respond(p, 404)
     ELSE IF ~hasAccess(boardOfCard(req[p].cid), req[p].user)
       THEN Respond(p, 403)
     ELSE Goto(p, "write")
  /\ UNCHANGED <<store, ids, freed>>

DeleteCardWrite(p) ==
  /\ At(p, "deleteCard", "write")
  /\ IF req[p].cid \in DOMAIN cards
     THEN LET c == req[p].cid IN
          /\ cards' = Restrict(cards, DOMAIN cards \ {c})
          /\ comments' = Restrict(comments,
                                  DOMAIN comments \ cardCascade(c).comments)
          /\ freedCards' = freedCards \cup {<<cards[c].listId, cards[c].order>>}
          /\ Respond(p, 200)
     ELSE /\ UNCHANGED <<cards, comments, freedCards>>
          /\ Respond(p, 500)
  /\ UNCHANGED <<boards, members, lists, ids, freedLists>>

MoveCardStart(p) ==
  /\ CanStart(p)
  /\ \E u \in Callers, c \in CardIds, l \in 0..MaxListId, o \in OrderInputs :
       Begin(p, [Blank EXCEPT !.op = "moveCard", !.user = u, !.cid = c,
                              !.lid = l, !.order = o],
             IF u = NoUser THEN 401
             ELSE IF l = 0 \/ ~isNumber(o) THEN 400 ELSE 0,
             "load")
  /\ UNCHANGED <<store, ids, freed>>

MoveCardLoad(p) ==
  /\ At(p, "moveCard", "load")
  /\ IF req[p].cid \notin DOMAIN cards THEN Respond(p, 404)
     ELSE IF ~hasAccess(boardOfCard(req[p].cid), req[p].user)
       THEN Respond(p, 403)
     ELSE req' = [req EXCEPT ![p].pc = "target",
                             ![p].srcBoard = boardOfCard(req[p].cid)]
  /\ UNCHANGED <<store, ids, freed>>

MoveCardTarget(p) ==
  /\ At(p, "moveCard", "target")
  /\ IF req[p].lid \notin DOMAIN lists THEN Respond(p, 404)
     ELSE IF ~hasTargetAccess(lists[req[p].lid].boardId, req[p].user)
       THEN Respond(p, 403)
     ELSE req' = [req EXCEPT ![p].pc = "write",
                             ![p].tgtBoard = lists[req[p].lid].boardId]
  /\ UNCHANGED <<store, ids, freed>>

MoveCardWriteUpsert(p) ==
  /\ At(p, "moveCard", "write")
  /\ IF fkList(req[p].lid)
     THEN /\ cards' = IF req[p].cid \in DOMAIN cards
                      THEN [cards EXCEPT ![req[p].cid] =
                              moveUpdate(cards[req[p].cid], req[p].lid,
                                         req[p].order[1])]
                      ELSE cards @@ (req[p].cid :>
                                       [listId |-> req[p].lid,
                                        order |-> req[p].order[1],
                                        title |-> <<"a">>])
          /\ Respond(p, 200)
     ELSE /\ cards' = cards
          /\ Respond(p, 500)
  /\ UNCHANGED <<boards, members, lists, comments, ids, freed>>

MoveCardWrite(p) ==
  /\ At(p, "moveCard", "write")
  /\ IF req[p].cid \in DOMAIN cards /\ fkList(req[p].lid)
     THEN /\ cards' = [cards EXCEPT ![req[p].cid] =
                         moveUpdate(cards[req[p].cid], req[p].lid,
                                    req[p].order[1])]
          /\ Respond(p, 200)
     ELSE /\ cards' = cards
          /\ Respond(p, 500)
  /\ UNCHANGED <<boards, members, lists, comments, ids, freed>>

\* ------------------------------------------------------------ list router
\* The list routes in the order they are declared.
ParamSegments == {":boardId", ":id"}
listRoutes ==
  << [method |-> "POST", path |-> <<"boards", ":boardId", "lists">>,
      handler |-> "createList"],
     [method |-> "PUT", path |-> <<"lists", ":id">>, handler |-> "updateList"],
     [method |-> "DELETE", path |-> <<"lists", ":id">>,
      handler |-> "deleteList"],
     [method |-> "PUT", path |-> <<"lists", "reorder">>,
      handler |-> "reorderLists"] >>

\* A route matches a request of its method whose path has as many segments,
\* each equal to the route's or standing where the route has a parameter.
routeMatches(route, method, path) ==
  /\ route.method = method
  /\ Len(route.path) = Len(path)
  /\ \A i \in 1..Len(path) :
       route.path[i] \in ParamSegments \/ route.path[i] = path[i]

\* The handler of the first declared route that matches, "none" without one.
dispatch(method, path) ==
  LET hits == {i \in 1..Len(listRoutes) :
                 routeMatches(listRoutes[i], method, path)}
  IN IF hits = {} THEN "none"
     ELSE listRoutes[CHOOSE i \in hits : \A j \in hits : i <= j].handler

\* The list whose id a path segment spells; 0, the id of no list, otherwise.
listIdOf(seg) ==
  IF \E l \in ListIds : ToString(l) = seg
  THEN CHOOSE l \in ListIds : ToString(l) = seg
  ELSE 0

\* PUT requests to the list router: /lists/<id> and /lists/reorder, with a
\* body carrying a title or a well-formed lists array.
RouterPaths ==
  {<<"lists", "reorder">>} \cup {<<"lists", ToString(l)>> : l \in ListIds}
RouterBodies ==
  {[title |-> <<" ", "b">>, lists |-> <<>>],
   [title |-> Undefined, lists |-> <<[id |-> 1, order |-> <<MaxOrder>>]>>]}

ListRouterReceive(p) ==
  /\ CanStart(p)
  /\ \E u \in Callers, path \in RouterPaths, body \in RouterBodies :
       req' = [req EXCEPT ![p] =
                 [Blank EXCEPT !.pc = "route", !.user = u,
                               !.http = [method |-> "PUT", path |-> path,
                                         title |-> body.title,
                                         lists |-> body.lists]]]
  /\ UNCHANGED <<store, ids, freed>>

ListRouterDispatch(p) ==
  /\ req[p].pc = "route"
  /\ LET h == req[p].http
         u == req[p].user
         handler == dispatch(h.method, h.path)
     IN IF handler = "updateList"
        THEN Begin(p, [Blank EXCEPT !.op = "updateList", !.user = u,
                                    !.lid = listIdOf(h.path[2]),
                                    !.title = h.title],
                   IF u = NoUser THEN 401
                   ELSE IF titleMissing(h.title) THEN 400 ELSE 0,
                   "load")
        ELSE IF handler = "reorderLists"
        THEN Begin(p, [Blank EXCEPT !.op = "reorderLists", !.user = u,
                                    !.items = h.lists],
                   IF u = NoUser THEN 401
                   ELSE IF payloadInvalid(h.lists) THEN 400 ELSE 0,
                   "load")
        ELSE req' = [req EXCEPT ![p] =
                       [Blank EXCEPT !.pc = "done", !.status = 404]]
  /\ UNCHANGED <<store, ids, freed>>

\* -------------------------------------------------------- specification
Next ==
  \E p \in Procs :
    \/ GetAllBoardsStart(p) \/ GetAllBoardsQuery(p)
    \/ CreateBoardStart(p) \/ CreateBoardWrite(p)
    \/ GetBoardByIdStart(p) \/ GetBoardByIdLoad(p)
    \/ UpdateBoardStart(p) \/ UpdateBoardLoad(p) \/ UpdateBoardWrite(p)
    \/ DeleteBoardStart(p) \/ DeleteBoardLoad(p) \/ DeleteBoardWrite(p)
    \/ CreateListStart(p) \/ CreateListLoad(p) \/ CreateListMax(p)
    \/ CreateListWrite(p)
    \/ UpdateListStart(p) \/ UpdateListLoad(p) \/ UpdateListWrite(p)
    \/ DeleteListStart(p) \/ DeleteListLoad(p) \/ DeleteListWrite(p)
    \/ ReorderListsStart(p) \/ ReorderListsLoad(p) \/ ReorderListsWrite(p)
    \/ CreateCardStart(p) \/ CreateCardLoad(p) \/ CreateCardMax(p)
    \/ CreateCardWrite(p)
    \/ GetCardStart(p) \/ GetCardLoad(p)
    \/ UpdateCardStart(p) \/ UpdateCardLoad(p) \/ UpdateCardWrite(p)
    \/ DeleteCardStart(p) \/ DeleteCardLoad(p) \/ DeleteCardWrite(p)
    \/ MoveCardStart(p) \/ MoveCardLoad(p) \/ MoveCardTarget(p)
    \/ MoveCardWrite(p)
    \/ ListRouterReceive(p) \/ ListRouterDispatch(p)

Spec == Init /\ [][Next]_vars

\* ------------------------------------------------------------ properties
\* Request p takes a step / finishes in this transition.
Steps(p) == req'[p] # req[p]
Finishes(p) == req[p].pc # "done" /\ req'[p].pc = "done"

\* The access rule read off the store's rows: owner, or a Member row (B, U).
Granted(b, u) ==
  \/ u = boards[b].ownerId
  \/ \E role \in {"owner", "member"} :
       [boardId |-> b, userId |-> u, role |-> role] \in members

AccessOps == {"getBoardById", "createList", "updateList", "deleteList",
              "createCard", "getCard", "updateCard", "deleteCard"}

\* The board that owns the request's target in the current store, 0 if the
\* target does not exist.
targetBoard(r) ==
  IF r.op \in {"getBoardById", "createList"}
    THEN IF r.bid \in DOMAIN boards THEN r.bid ELSE 0
  ELSE IF r.op \in {"updateList", "deleteList", "createCard"}
    THEN IF r.lid \in DOMAIN lists THEN lists[r.lid].boardId ELSE 0
  ELSE IF r.cid \in DOMAIN cards THEN boardOfCard(r.cid) ELSE 0

\* C1: for getBoardById, createList, updateList, deleteList, createCard,
\* getCard, updateCard and deleteCard on an existing target inside board B,
\* the authorization step answers 403 iff the caller is neither B's owner nor
\* has a Member row on B; a 403 ends the request and leaves the store as it
\* was, and a caller with access is let through.
C1_AccessDecides ==
  [][\A p \in Procs :
       (/\ req[p].op \in AccessOps
        /\ req[p].pc = "load"
        /\ Steps(p)
        /\ targetBoard(req[p]) # 0)
       => /\ req'[p].status = 403
               <=> ~Granted(targetBoard(req[p]), req[p].user)
          /\ req'[p].status = 403 => req'[p].pc = "done" /\ store' = store
          /\ req'[p].status # 403 => req'[p].status \in {0, 200, 400}]_vars

C1_Witness ==
  \E p, q \in Procs :
    /\ req[p].op = "createList" /\ req[p].user = "u2" /\ req[p].bid = 1
    /\ req[p].status = 201
    /\ req[q].op = "updateList" /\ req[q].user = "u1" /\ req[q].lid = 3
    /\ req[q].status = 403

\* C2: updateBoard and deleteBoard go through only for the board's owner: on
\* an existing board every other caller, a non-owner member included, gets
\* 403 with the store unchanged; the owner reaches the write, which succeeds
\* on the board it finds; and a board's row only changes or disappears in a
\* step of a request made by its owner.
C2_OwnerOnly ==
  [][/\ \A p \in Procs :
          (/\ req[p].op \in {"updateBoard", "deleteBoard"}
           /\ Steps(p)
           /\ req[p].bid \in DOMAIN boards)
          => /\ req[p].pc = "load" =>
                  IF req[p].user = boards[req[p].bid].ownerId
                  THEN req'[p].pc = "write"
                  ELSE /\ req'[p].pc = "done" /\ req'[p].status = 403
                       /\ store' = store
             /\ req[p].pc = "write" => req'[p].status = 200
     /\ \A b \in DOMAIN boards :
          (b \notin DOMAIN boards' \/ boards'[b] # boards[b])
          => \E p \in Procs :
               /\ Steps(p)
               /\ req[p].op \in {"updateBoard", "deleteBoard"}
               /\ req[p].bid = b
               /\ req[p].user = boards[b].ownerId
               /\ req'[p].status = 200]_vars

C2_Witness ==
  \E p, q \in Procs :
    /\ req[p].op = "updateBoard" /\ req[p].user = "u2" /\ req[p].bid = 1
    /\ req[p].status = 403
    /\ req[q].op = "updateBoard" /\ req[q].user = "u1" /\ req[q].bid = 1
    /\ req[q].status = 200
    /\ boards[1].title = <<"b">>

\* C3: moveCard answers 403 at its source check iff the caller has no access
\* to the board owning the card's current list, and at its target check iff
\* the caller has no access to the board owning the target list; a 403
\* leaves every card as it was; and a card's listId or order only changes in
\* the write of a moveCard whose caller has access to the source board it
\* loaded and to the target list's board.
C3_MoveNeedsBothSides ==
  [][/\ \A p \in Procs :
          (req[p].op = "moveCard" /\ Steps(p))
          => /\ (req[p].pc = "load" /\ req[p].cid \in DOMAIN cards)
                  => (req'[p].status = 403
                        <=> ~Granted(boardOfCard(req[p].cid), req[p].user))
             /\ (req[p].pc = "target" /\ req[p].lid \in DOMAIN lists)
                  => (req'[p].status = 403
                        <=> ~Granted(lists[req[p].lid].boardId, req[p].user))
             /\ req'[p].status = 403 => cards' = cards
     /\ \A c \in DOMAIN cards \cap DOMAIN cards' :
          (cards'[c].listId # cards[c].listId \/ cards'[c].order # cards[c].order)
          => \E p \in Procs :
               /\ req[p].op = "moveCard" /\ req[p].pc = "write" /\ Steps(p)
               /\ req[p].cid = c
               /\ req'[p].status = 200
               /\ req[p].srcBoard \in DOMAIN boards
                    => Granted(req[p].srcBoard, req[p].user)
               /\ Granted(lists[req[p].lid].boardId, req[p].user)]_vars

C3_Witness ==
  \E p \in Procs :
    /\ req[p].op = "moveCard" /\ req[p].status = 200
    /\ req[p].srcBoard = 1 /\ req[p].tgtBoard = 2
    /\ req[p].cid \in DOMAIN cards
    /\ cards[req[p].cid].listId = req[p].lid
    /\ lists[req[p].lid].boardId = 2

\* C4: a reorder only changes the order of lists of the board it was
\* authorized on (the first entry's board), a board its caller has access to.
C4_ReorderStaysInScope ==
  [][\A l \in DOMAIN lists \cap DOMAIN lists' :
       lists'[l].order # lists[l].order
       => \E p \in Procs :
            /\ req[p].op = "reorderLists" /\ req[p].pc = "write" /\ Steps(p)
            /\ lists[l].boardId = req[p].srcBoard
            /\ Granted(lists[l].boardId, req[p].user)]_vars

\* The order the payload gives list id: that of its last entry naming id.
payloadOrder(items, id) ==
  items[SetMax({i \in 1..Len(items) : items[i].id = id})].order[1]

\* C5: the batch of a reorder lands whole or not at all: the write either
\* answers 200 with every entry's list existing and holding the payload's
\* order, or leaves every list as it was; and list orders change in no other
\* step, so that no state holds a part of a batch.
C5_ReorderAllOrNothing ==
  [][/\ \A p \in Procs :
          (req[p].op = "reorderLists" /\ req[p].pc = "write" /\ Steps(p))
          => IF req'[p].status = 200
             THEN \A i \in 1..Len(req[p].items) :
                    /\ req[p].items[i].id \in DOMAIN lists'
                    /\ lists'[req[p].items[i].id].order
                         = payloadOrder(req[p].items, req[p].items[i].id)
             ELSE lists' = lists
     /\ \A l \in DOMAIN lists \cap DOMAIN lists' :
          lists'[l].order # lists[l].order
          => \E p \in Procs :
               /\ req[p].op = "reorderLists" /\ req[p].pc = "write"
               /\ Steps(p) /\ req'[p].status = 200]_vars

\* A batch that failed after its first entry, whose list still exists.
C5_Witness ==
  \E p \in Procs :
    /\ req[p].op = "reorderLists" /\ req[p].status = 500
    /\ Len(req[p].items) = 2
    /\ req[p].items[1].id \in DOMAIN lists
    /\ lists[req[p].items[1].id].order # MaxOrder

\* C6: every card is in one list, and once a moveCard on a card has
\* succeeded the card holds the (listId, order) pair of one successful
\* moveCard on it, never one call's listId with another's order.
C6_OnePairWins ==
  \A c \in DOMAIN cards :
    /\ cards[c].listId \in ListIds
    /\ (\E p \in Procs : req[p].op = "moveCard" /\ req[p].cid = c
                          /\ req[p].status = 200)
       => \E p \in Procs :
            /\ req[p].op = "moveCard" /\ req[p].cid = c /\ req[p].status = 200
            /\ cards[c].listId = req[p].lid
            /\ cards[c].order = req[p].order[1]

C6_Witness ==
  \E p, q \in Procs :
    /\ req[p].op = "moveCard" /\ req[q].op = "moveCard"
    /\ req[p].cid = req[q].cid /\ req[p].lid # req[q].lid
    /\ req[p].order # req[q].order
    /\ req[p].status = 200 /\ req[q].status = 200
    /\ req[p].cid \in DOMAIN cards

ordersOfLists(b) == {lists[l].order : l \in listsOf(b)}
ordersOfCards(l) == {cards[c].order : c \in cardsOf({l})}

\* The value the spec gives a new row: 0 in an empty scope, otherwise one
\* more than an order some sibling holds and above every sibling's order.
IsMaxPlusOne(v, orders) ==
  IF orders = {} THEN v = 0
  ELSE (v - 1) \in orders /\ \A x \in orders : x < v

\* C7: createList computes order = max(orders of the board's lists) + 1, or
\* 0 for a board without lists, from the siblings it reads, and the list it
\* inserts carries that order and that board; createCard does the same with
\* the cards of the list.  Sparse and colliding sibling orders included.
C7_NextOrderIsMaxPlusOne ==
  [][\A p \in Procs :
       /\ (req[p].op = "createList" /\ req[p].pc = "max" /\ Steps(p))
            => IsMaxPlusOne(req'[p].ord, ordersOfLists(req[p].bid))
       /\ (req[p].op = "createCard" /\ req[p].pc = "max" /\ Steps(p))
            => IsMaxPlusOne(req'[p].ord, ordersOfCards(req[p].lid))
       /\ (req[p].op = "createList" /\ req[p].pc = "write"
             /\ req'[p].status = 201)
            => /\ nextList \notin DOMAIN lists
               /\ lists' = lists @@ (nextList :> lists'[nextList])
               /\ lists'[nextList].order = req[p].ord
               /\ lists'[nextList].boardId = req[p].bid
       /\ (req[p].op = "createCard" /\ req[p].pc = "write"
             /\ req'[p].status = 201)
            => /\ nextCard \notin DOMAIN cards
               /\ cards' = cards @@ (nextCard :> cards'[nextCard])
               /\ cards'[nextCard].order = req[p].ord
               /\ cards'[nextCard].listId = req[p].lid]_vars

\* A list created next to siblings whose orders a reorder made sparse.
C7_Witness ==
  \E p, q \in Procs :
    /\ req[q].op = "reorderLists" /\ req[q].status = 200
    /\ req[p].op = "createList" /\ req[p].status = 201
    /\ req[p].ord = MaxOrder + 1
    /\ Cardinality(listsOf(req[p].bid)) = 3

Errors == {400, 401, 403, 404, 500}

\* C9: a step in which a request answers 400, 401, 403, 404 or 500 leaves
\* the store as it was, and the store only changes in the step in which a
\* request answers 200 or 201: no request has written before it fails.
C9_NoPartialMutation ==
  [][/\ \A p \in Procs :
          (Finishes(p) /\ req'[p].status \in Errors) => store' = store
     /\ store' # store
          => \E p \in Procs : Finishes(p) /\ req'[p].status \in {200, 201}]_vars

\* A moveCard refused by the store after both of its checks passed.
C9_Witness ==
  \E p \in Procs :
    /\ req[p].op = "moveCard" /\ req[p].status = 500
    /\ req[p].tgtBoard # 0

\* C10 as stated: a list (card) is never created with an order value that a
\* deleted list of the same board (card of the same list) held.
C10_NeverReused ==
  [][\A p \in Procs :
       /\ (req[p].op = "createList" /\ req[p].pc = "write"
             /\ req'[p].status = 201)
            => <<req[p].bid, req[p].ord>> \notin freedLists
       /\ (req[p].op = "createCard" /\ req[p].pc = "write"
             /\ req'[p].status = 201)
            => <<req[p].lid, req[p].ord>> \notin freedCards]_vars

\* C10 amended: the order createList (createCard) assigns is above the
\* order of every list of the board (card of the list) present when it reads
\* the maximum, so it never repeats the order of a sibling it read; the
\* order of a deleted sibling is assigned again once no sibling read holds
\* an order as large.
C10_AboveSiblingsRead ==
  [][\A p \in Procs :
       /\ (req[p].op = "createList" /\ req[p].pc = "max" /\ Steps(p))
            => \A l \in listsOf(req[p].bid) : lists[l].order < req'[p].ord
       /\ (req[p].op = "createCard" /\ req[p].pc = "max" /\ Steps(p))
            => \A c \in cardsOf({req[p].lid}) : cards[c].order < req'[p].ord]_vars

\* A list created, after a delete, with the order the deleted list held.
C10_Witness ==
  \E p, q \in Procs :
    /\ req[q].op = "deleteList" /\ req[q].status = 200
    /\ req[p].op = "createList" /\ req[p].status = 201
    /\ req[p].lid \in DOMAIN lists
    /\ <<req[p].bid, req[p].ord>> \in freedLists

\* Whether the request's target exists and its caller may act on it, in the
\* current store: the owner for updateBoard, owner or member otherwise.
targetAuthorized(r) ==
  IF r.op = "updateBoard"
    THEN r.bid \in DOMAIN boards /\ r.user = boards[r.bid].ownerId
  ELSE IF r.op = "createList"
    THEN r.bid \in DOMAIN boards /\ Granted(r.bid, r.user)
  ELSE IF r.op \in {"updateList", "createCard"}
    THEN r.lid \in DOMAIN lists /\ Granted(lists[r.lid].boardId, r.user)
  ELSE r.cid \in DOMAIN cards /\ Granted(boardOfCard(r.cid), r.user)

\* C11: 400 is answered only for an existing target the caller is authorized
\* on (a missing target gives 404 and a caller without access 403, whatever
\* the payload), for updateBoard, createList, updateList, createCard,
\* updateCard and moveCard.
C11_ValidationComesLast ==
  [][\A p \in Procs :
       (/\ Steps(p)
        /\ req'[p].status = 400
        /\ req'[p].op \in {"updateBoard", "createList", "updateList",
                           "createCard", "updateCard", "moveCard"})
       => targetAuthorized(req'[p])]_vars

\* C12: the write of a reorder whose payload names a list that does not
\* exist, at any position, answers 404 and changes no list.
C12_ReorderMissingIs404 ==
  [][\A p \in Procs :
       (/\ req[p].op = "reorderLists" /\ req[p].pc = "write" /\ Steps(p)
        /\ \E i \in 1..Len(req[p].items) :
             req[p].items[i].id \notin DOMAIN lists)
       => req'[p].status = 404 /\ lists' = lists]_vars

\* C13: a moveCard that answers 200 leaves its card with the listId and the
\* order it was given and its title, and changes nothing else: the same
\* cards exist, every other card is as it was, and boards, members, lists
\* and comments are as they were.
C13_MoveChangesOneCard ==
  [][\A p \in Procs :
       (/\ req[p].op = "moveCard" /\ req[p].pc = "write" /\ Steps(p)
        /\ req'[p].status = 200)
       => /\ DOMAIN cards' = DOMAIN cards
          /\ req[p].cid \in DOMAIN cards
          /\ cards'[req[p].cid].listId = req[p].lid
          /\ cards'[req[p].cid].order = req[p].order[1]
          /\ cards'[req[p].cid].title = cards[req[p].cid].title
          /\ \A c \in DOMAIN cards \ {req[p].cid} : cards'[c] = cards[c]
          /\ <<boards, members, lists, comments>>'
               = <<boards, members, lists, comments>>]_vars

\* A card moved next to a sibling holding the same order, both kept as given.
C13_Witness ==
  \E p \in Procs :
    /\ req[p].op = "moveCard" /\ req[p].status = 200
    /\ req[p].cid \in DOMAIN cards
    /\ cards[req[p].cid].listId = req[p].lid
    /\ \E c \in DOMAIN cards \ {req[p].cid} :
         /\ cards[c].listId = req[p].lid
         /\ cards[c].order = cards[req[p].cid].order

\* C14: the write of a moveCard only changes a card that lies, at that
\* moment, in a board its caller has access to.
C14_MoveCommitInAccessibleBoard ==
  [][\A p \in Procs :
       (/\ req[p].op = "moveCard" /\ req[p].pc = "write" /\ Steps(p)
        /\ req'[p].status = 200)
       => Granted(boardOfCard(req[p].cid), req[p].user)]_vars

\* C15: two createList calls on the same board that both succeeded gave
\* their lists different orders, and so did two createCard calls on the same
\* list.
C15_ConcurrentCreatesDiffer ==
  \A p, q \in Procs :
    (/\ p # q
     /\ req[p].status = 201 /\ req[q].status = 201
     /\ \/ req[p].op = "createList" /\ req[q].op = "createList"
             /\ req[p].bid = req[q].bid
        \/ req[p].op = "createCard" /\ req[q].op = "createCard"
             /\ req[p].lid = req[q].lid)
    => req[p].ord # req[q].ord

\* C17: a card that is gone never comes back (card ids are not reissued); a
\* getCard, updateCard, deleteCard or moveCard that loads it answers 404; and
\* an updateCard, deleteCard or moveCard that loaded it before the delete
\* and writes after it is refused and leaves the cards as they were.
C17_DeletedIsTerminal ==
  [][/\ \A c \in CardIds :
          (c < nextCard /\ c \notin DOMAIN cards) => c \notin DOMAIN cards'
     /\ \A p \in Procs :
          (/\ req[p].op \in {"getCard", "updateCard", "deleteCard", "moveCard"}
           /\ Steps(p)
           /\ req[p].cid < nextCard /\ req[p].cid \notin DOMAIN cards)
          => /\ req[p].pc = "load" => req'[p].status = 404
             /\ req[p].pc = "write" => req'[p].status = 500
             /\ cards' = cards]_vars

\* A moveCard that passed both checks, lost its card to a deleteCard and was
\* refused at its write.
C17_Witness ==
  \E p, q \in Procs :
    /\ req[q].op = "deleteCard" /\ req[q].status = 200
    /\ req[p].op = "moveCard" /\ req[p].status = 500
    /\ req[p].cid = req[q].cid /\ req[p].tgtBoard # 0
    /\ req[p].cid \notin DOMAIN cards
    /\ req[p].lid \in DOMAIN lists

\* C16: an authenticated PUT /lists/reorder carrying a well-formed lists
\* array is dispatched to reorderLists (and not to updateList with the id
\* "reorder").
C16_ReorderRouteReached ==
  [][\A p \in Procs :
       (/\ req[p].pc = "route" /\ Steps(p)
        /\ req[p].user # NoUser
        /\ req[p].http.method = "PUT"
        /\ req[p].http.path = <<"lists", "reorder">>
        /\ ~payloadInvalid(req[p].http.lists))
       => req'[p].op = "reorderLists"]_vars

====
